---------------------------- MODULE Spec2Model ----------------------------
(***************************************************************************)
(* Model of AuthWrapper (src/src/client/components/Auth.tsx): the React    *)
(* component that resolves the authentication state and keeps it in        *)
(* this.state.authState, an AsyncProcess<AuthenticationState>.             *)
(*                                                                         *)
(* fetchTokenInfo() is an async function.  Each invocation ("attempt")     *)
(* runs synchronously up to its first await, and is resumed when the       *)
(* awaited promise settles, so one invocation is a sequence of atomic      *)
(* segments.  Several invocations may be suspended at the same time; they  *)
(* share nothing but this.state.authState.                                 *)
(***************************************************************************)
EXTENDS Integers, Sequences, FiniteSets, TLC

\* Number of invocations of fetchTokenInfo() that are followed.
MaxAttempts == 2

Attempts == 1..MaxAttempts

(***************************************************************************)
(* Values of the collaborators.                                            *)
(***************************************************************************)
\* BrowserAuth.getToken() returns a string or null.
NullToken == "null"
Tokens == {"abc123", "xyz"}

\* null where an object is expected (TokenInfo | null, UserProfile | null).
Null == [null |-> TRUE]
\* a local that has not been assigned yet
Undefined == [undefined |-> TRUE]
UndefinedToken == "undefined"

Users == {"alice", "bob"}
TokenInfos == {[user |-> u] : u \in Users}
UserProfiles == {[name |-> "Alice"], [name |-> "Bob"]}

\* The appcode that AuthService reports for an invalid or expired token.
InvalidToken == 10020

\* Values a rejected promise may carry.  An AuthError carries the service's
\* error object in .error, next to its own Error message; a plain Error
\* carries .message; anything can be thrown in JavaScript, so a value that
\* is no Error at all, with or without a message property, is possible too.
AuthErrors ==
    {[cls |-> "AuthError", message |-> "AuthError",
      error |-> [appcode |-> c, message |-> m]] :
        <<c, m>> \in {<<InvalidToken, "expired">>,
                      <<InvalidToken, "server down">>,
                      <<500, "server down">>}}
Errors == {[cls |-> "Error", message |-> "boom"]}
NonErrors == {[cls |-> "Object", message |-> "boom"], [cls |-> "Object"]}
Exceptions == AuthErrors \cup Errors \cup NonErrors

NoException == [cls |-> "none"]

VARIABLES
    authState,    \* this.state.authState
    pc,           \* where each invocation of fetchTokenInfo() stands
    token,        \* const token, per invocation
    tokenInfo,    \* const tokenInfo, per invocation
    userProfile,  \* const userProfile (of fetchUserProfile), per invocation
    ex,           \* the value caught by the invocation's catch clause
    calls,        \* the collaborator calls each invocation has issued
    writes,       \* the arguments of each invocation's setState calls
    mounted,      \* the component is mounted (React has not unmounted it)
    lastWriter,   \* the invocation that called setState last, 0 if none
    lateWrite,    \* setState has been called after the unmount
    invokedSinceWrite  \* fetchTokenInfo() was invoked after the last setState

vars == <<authState, pc, token, tokenInfo, userProfile, ex, calls, writes,
          mounted, lastWriter, lateWrite, invokedSinceWrite>>

(***************************************************************************)
(* The states fetchTokenInfo() builds.                                     *)
(***************************************************************************)
\* Variant: the unauthenticated state carries the status NONE.
unauthenticatedState_None ==
    [status |-> "SUCCESS", value |-> [status |-> "NONE"]]

unauthenticatedState ==
    [status |-> "SUCCESS", value |-> [status |-> "UNAUTHENTICATED"]]

errorState(message) ==
    [status |-> "ERROR", message |-> message]

\* Variant: the subject is stored where the token belongs.
authenticatedState_SubjectAsToken(t, ti, up) ==
    [status |-> "SUCCESS",
     value |-> [status |-> "AUTHENTICATED",
                authInfo |-> [token |-> ti.user, tokenInfo |-> ti],
                userProfile |-> up]]

authenticatedState(t, ti, up) ==
    [status |-> "SUCCESS",
     value |-> [status |-> "AUTHENTICATED",
                authInfo |-> [token |-> t, tokenInfo |-> ti],
                userProfile |-> up]]

\* fetchUserProfile throws this when fetchProfile resolves to null.
UserNotFound(username) ==
    [cls |-> "Error", message |-> "User not found: " \o username]

\* Variant: no case for the invalid-token appcode.
catchState_NoInvalidTokenCase(e) ==
    IF e.cls = "AuthError"
    THEN errorState(e.error.message)
    ELSE IF e.cls = "Error"
         THEN errorState(e.message)
         ELSE errorState("Unknown Error")

\* Variant: the AuthError's own message instead of the service's.
catchState_OwnMessage(e) ==
    IF e.cls = "AuthError"
    THEN IF e.error.appcode = InvalidToken
         THEN unauthenticatedState
         ELSE errorState(e.message)
    ELSE IF e.cls = "Error"
         THEN errorState(e.message)
         ELSE errorState("Unknown Error")

\* The catch clause of fetchTokenInfo: the state it sets for a caught value.
catchState(e) ==
    IF e.cls = "AuthError"
    THEN IF e.error.appcode = InvalidToken
         THEN unauthenticatedState
         ELSE errorState(e.error.message)
    ELSE IF e.cls = "Error"
         THEN errorState(e.message)
         ELSE errorState("Unknown Error")

\* this.setState({ authState: s }) by invocation i, which then returns.
SetStateAndReturn(i, s) ==
    /\ authState' = s
    /\ writes' = [writes EXCEPT ![i] = Append(@, s)]
    /\ pc' = [pc EXCEPT ![i] = "done"]
    /\ lastWriter' = i
    /\ lateWrite' = ~mounted
    /\ invokedSinceWrite' = FALSE

Init ==
    /\ authState = [status |-> "NONE"]
    /\ pc = [i \in Attempts |-> "idle"]
    /\ token = [i \in Attempts |-> UndefinedToken]
    /\ tokenInfo = [i \in Attempts |-> Undefined]
    /\ userProfile = [i \in Attempts |-> Undefined]
    /\ ex = [i \in Attempts |-> NoException]
    /\ calls = [i \in Attempts |-> <<>>]
    /\ writes = [i \in Attempts |-> <<>>]
    /\ mounted = TRUE
    /\ lastWriter = 0
    /\ lateWrite = FALSE
    /\ invokedSinceWrite = FALSE

\* Variant: an invocation returns at once while another one is suspended.
FetchTokenInfo_Deduplicated(i) ==
    /\ mounted
    /\ pc[i] = "idle"
    /\ i > 1 => pc[i - 1] # "idle"
    /\ \E t \in Tokens \cup {NullToken} :
        /\ token' = [token EXCEPT ![i] = t]
        /\ IF \E j \in Attempts : pc[j] \in {"awaitTokenInfo", "awaitProfile"}
           THEN /\ pc' = [pc EXCEPT ![i] = "done"]
                /\ UNCHANGED <<authState, writes, calls, lastWriter,
                               lateWrite, invokedSinceWrite>>
           ELSE IF t = NullToken
           THEN /\ SetStateAndReturn(i, unauthenticatedState)
                /\ UNCHANGED calls
           ELSE /\ calls' = [calls EXCEPT ![i] =
                        Append(@, [fn |-> "getTokenInfo", token |-> t])]
                /\ pc' = [pc EXCEPT ![i] = "awaitTokenInfo"]
                /\ invokedSinceWrite' = TRUE
                /\ UNCHANGED <<authState, writes, lastWriter, lateWrite>>
    /\ UNCHANGED <<tokenInfo, userProfile, ex, mounted>>

\* Variant: an invocation that has to wait puts the state back to NONE.
FetchTokenInfo_ResetsState(i) ==
    /\ mounted
    /\ pc[i] = "idle"
    /\ i > 1 => pc[i - 1] # "idle"
    /\ \E t \in Tokens \cup {NullToken} :
        /\ token' = [token EXCEPT ![i] = t]
        /\ IF t = NullToken
           THEN /\ SetStateAndReturn(i, unauthenticatedState)
                /\ UNCHANGED calls
           ELSE /\ calls' = [calls EXCEPT ![i] =
                        Append(@, [fn |-> "getTokenInfo", token |-> t])]
                /\ pc' = [pc EXCEPT ![i] = "awaitTokenInfo"]
                /\ invokedSinceWrite' = TRUE
                /\ authState' = [status |-> "NONE"]
                /\ UNCHANGED <<writes, lastWriter, lateWrite>>
    /\ UNCHANGED <<tokenInfo, userProfile, ex, mounted>>

\* Variant: the token is not checked for null.
FetchTokenInfo_NoNullCheck(i) ==
    /\ mounted
    /\ pc[i] = "idle"
    /\ i > 1 => pc[i - 1] # "idle"
    /\ \E t \in Tokens \cup {NullToken} :
        /\ token' = [token EXCEPT ![i] = t]
        /\ calls' = [calls EXCEPT ![i] =
                Append(@, [fn |-> "getTokenInfo", token |-> t])]
        /\ pc' = [pc EXCEPT ![i] = "awaitTokenInfo"]
        /\ invokedSinceWrite' = TRUE
    /\ UNCHANGED <<authState, writes, lastWriter, lateWrite>>
    /\ UNCHANGED <<tokenInfo, userProfile, ex, mounted>>

(***************************************************************************)
(* fetchTokenInfo() up to its first await.  Invocations are numbered in    *)
(* the order they are made.                                                *)
(***************************************************************************)
FetchTokenInfo(i) ==
    /\ mounted
    /\ pc[i] = "idle"
    /\ i > 1 => pc[i - 1] # "idle"
    /\ \E t \in Tokens \cup {NullToken} :
        /\ token' = [token EXCEPT ![i] = t]
        /\ IF t = NullToken
           THEN /\ SetStateAndReturn(i, unauthenticatedState)
                /\ UNCHANGED calls
           ELSE /\ calls' = [calls EXCEPT ![i] =
                        Append(@, [fn |-> "getTokenInfo", token |-> t])]
                /\ pc' = [pc EXCEPT ![i] = "awaitTokenInfo"]
                /\ invokedSinceWrite' = TRUE
                /\ UNCHANGED <<authState, writes, lastWriter, lateWrite>>
    /\ UNCHANGED <<tokenInfo, userProfile, ex, mounted>>

\* Variant: fetchUserProfile is called with its arguments swapped.
GetTokenInfoResolves_SwappedArguments(i) ==
    /\ pc[i] = "awaitTokenInfo"
    /\ \E r \in TokenInfos \cup {Null} :
        /\ tokenInfo' = [tokenInfo EXCEPT ![i] = r]
        /\ IF r = Null
           THEN /\ SetStateAndReturn(i, unauthenticatedState)
                /\ UNCHANGED calls
           ELSE /\ calls' = [calls EXCEPT ![i] =
                        Append(@, [fn |-> "fetchProfile", token |-> r.user,
                                   username |-> token[i]])]
                /\ pc' = [pc EXCEPT ![i] = "awaitProfile"]
                /\ UNCHANGED <<authState, writes>>
                /\ UNCHANGED <<lastWriter, lateWrite, invokedSinceWrite>>
    /\ UNCHANGED <<token, userProfile, ex, mounted>>

\* Variant: tokenInfo is not checked for null, so reading tokenInfo.user
\* throws a TypeError, which the catch clause turns into an error state.
GetTokenInfoResolves_NoNullCheck(i) ==
    /\ pc[i] = "awaitTokenInfo"
    /\ \E r \in TokenInfos \cup {Null} :
        /\ tokenInfo' = [tokenInfo EXCEPT ![i] = r]
        /\ IF r = Null
           THEN /\ ex' = [ex EXCEPT ![i] =
                        [cls |-> "Error", message |-> "tokenInfo is null"]]
                /\ SetStateAndReturn(i, catchState(ex'[i]))
                /\ UNCHANGED calls
           ELSE /\ calls' = [calls EXCEPT ![i] =
                        Append(@, [fn |-> "fetchProfile", token |-> token[i],
                                   username |-> r.user])]
                /\ pc' = [pc EXCEPT ![i] = "awaitProfile"]
                /\ UNCHANGED <<authState, writes, ex>>
                /\ UNCHANGED <<lastWriter, lateWrite, invokedSinceWrite>>
    /\ UNCHANGED <<token, userProfile, mounted>>

\* Variant: the progress of the resolution is published once the token
\* has been verified.
GetTokenInfoResolves_PublishesProgress(i) ==
    /\ pc[i] = "awaitTokenInfo"
    /\ \E r \in TokenInfos \cup {Null} :
        /\ tokenInfo' = [tokenInfo EXCEPT ![i] = r]
        /\ IF r = Null
           THEN /\ SetStateAndReturn(i, unauthenticatedState)
                /\ UNCHANGED calls
           ELSE /\ calls' = [calls EXCEPT ![i] =
                        Append(@, [fn |-> "fetchProfile", token |-> token[i],
                                   username |-> r.user])]
                /\ pc' = [pc EXCEPT ![i] = "awaitProfile"]
                /\ authState' = [status |-> "PENDING"]
                /\ writes' = [writes EXCEPT ![i] = Append(@, authState')]
                /\ lastWriter' = i
                /\ lateWrite' = ~mounted
                /\ invokedSinceWrite' = FALSE
    /\ UNCHANGED <<token, userProfile, ex, mounted>>

(***************************************************************************)
(* auth.getTokenInfo() resolves: null, or a TokenInfo, in which case       *)
(* fetchUserProfile is entered and runs up to its await.                   *)
(***************************************************************************)
GetTokenInfoResolves(i) ==
    /\ pc[i] = "awaitTokenInfo"
    /\ \E r \in TokenInfos \cup {Null} :
        /\ tokenInfo' = [tokenInfo EXCEPT ![i] = r]
        /\ IF r = Null
           THEN /\ SetStateAndReturn(i, unauthenticatedState)
                /\ UNCHANGED calls
           ELSE /\ calls' = [calls EXCEPT ![i] =
                        Append(@, [fn |-> "fetchProfile", token |-> token[i],
                                   username |-> r.user])]
                /\ pc' = [pc EXCEPT ![i] = "awaitProfile"]
                /\ UNCHANGED <<authState, writes>>
                /\ UNCHANGED <<lastWriter, lateWrite, invokedSinceWrite>>
    /\ UNCHANGED <<token, userProfile, ex, mounted>>

\* Variant: a rejection that is no AuthError makes the invocation call
\* getTokenInfo() once more.
GetTokenInfoRejects_Retries(i) ==
    /\ pc[i] = "awaitTokenInfo"
    /\ \E e \in Exceptions :
        /\ ex' = [ex EXCEPT ![i] = e]
        /\ IF e.cls = "AuthError" \/ Len(calls[i]) > 1
           THEN /\ SetStateAndReturn(i, catchState(e))
                /\ UNCHANGED calls
           ELSE /\ calls' = [calls EXCEPT ![i] =
                        Append(@, [fn |-> "getTokenInfo",
                                   token |-> token[i]])]
                /\ UNCHANGED <<authState, writes, pc>>
                /\ UNCHANGED <<lastWriter, lateWrite, invokedSinceWrite>>
    /\ UNCHANGED <<token, tokenInfo, userProfile, mounted>>

\* Variant: the catch clause throws again what it does not recognise, so
\* the promise of fetchTokenInfo() is rejected and nothing is set.
GetTokenInfoRejects_Rethrows(i) ==
    /\ pc[i] = "awaitTokenInfo"
    /\ \E e \in Exceptions :
        /\ ex' = [ex EXCEPT ![i] = e]
        /\ IF e.cls \in {"AuthError", "Error"}
           THEN SetStateAndReturn(i, catchState(e))
           ELSE /\ pc' = [pc EXCEPT ![i] = "rejected"]
                /\ UNCHANGED <<authState, writes>>
                /\ UNCHANGED <<lastWriter, lateWrite, invokedSinceWrite>>
    /\ UNCHANGED <<token, tokenInfo, userProfile, calls, mounted>>

(***************************************************************************)
(* auth.getTokenInfo() rejects: the catch clause runs.                     *)
(***************************************************************************)
GetTokenInfoRejects(i) ==
    /\ pc[i] = "awaitTokenInfo"
    /\ \E e \in Exceptions :
        /\ ex' = [ex EXCEPT ![i] = e]
        /\ SetStateAndReturn(i, catchState(e))
    /\ UNCHANGED <<token, tokenInfo, userProfile, calls, mounted>>

\* Variant: a missing profile is taken for a missing login.
FetchProfileResolves_NullIsUnauthenticated(i) ==
    /\ pc[i] = "awaitProfile"
    /\ \E r \in UserProfiles \cup {Null} :
        /\ userProfile' = [userProfile EXCEPT ![i] = r]
        /\ SetStateAndReturn(i,
               IF r = Null THEN unauthenticatedState
               ELSE authenticatedState(token[i], tokenInfo[i], r))
    /\ UNCHANGED <<token, tokenInfo, calls, ex, mounted>>

\* Variant: the token is read from the browser again when the state is set.
FetchProfileResolves_ReadsTokenAgain(i) ==
    /\ pc[i] = "awaitProfile"
    /\ \E r \in UserProfiles \cup {Null} :
        /\ userProfile' = [userProfile EXCEPT ![i] = r]
        /\ IF r = Null
           THEN /\ ex' = [ex EXCEPT ![i] = UserNotFound(tokenInfo[i].user)]
                /\ SetStateAndReturn(i, catchState(ex'[i]))
           ELSE /\ \E t \in Tokens :
                     SetStateAndReturn(i,
                         authenticatedState(t, tokenInfo[i], r))
                /\ UNCHANGED ex
    /\ UNCHANGED <<token, tokenInfo, calls, mounted>>

(***************************************************************************)
(* userModel.fetchProfile() resolves: null makes fetchUserProfile throw,   *)
(* which the catch clause of fetchTokenInfo handles; a profile completes   *)
(* the invocation with the authenticated state.                            *)
(***************************************************************************)
FetchProfileResolves(i) ==
    /\ pc[i] = "awaitProfile"
    /\ \E r \in UserProfiles \cup {Null} :
        /\ userProfile' = [userProfile EXCEPT ![i] = r]
        /\ IF r = Null
           THEN /\ ex' = [ex EXCEPT ![i] = UserNotFound(tokenInfo[i].user)]
                /\ SetStateAndReturn(i, catchState(ex'[i]))
           ELSE /\ SetStateAndReturn(i,
                       authenticatedState(token[i], tokenInfo[i], r))
                /\ UNCHANGED ex
    /\ UNCHANGED <<token, tokenInfo, calls, mounted>>

\* Variant: the token having been verified, no rejection of fetchProfile is
\* taken for a missing login.
FetchProfileRejects_TokenAlreadyValid(i) ==
    /\ pc[i] = "awaitProfile"
    /\ \E e \in Exceptions :
        /\ ex' = [ex EXCEPT ![i] = e]
        /\ SetStateAndReturn(i,
               IF e.cls = "AuthError" THEN errorState(e.error.message)
               ELSE catchState(e))
    /\ UNCHANGED <<token, tokenInfo, userProfile, calls, mounted>>

(***************************************************************************)
(* userModel.fetchProfile() rejects: the rejection passes through          *)
(* fetchUserProfile into the catch clause of fetchTokenInfo.               *)
(***************************************************************************)
FetchProfileRejects(i) ==
    /\ pc[i] = "awaitProfile"
    /\ \E e \in Exceptions :
        /\ ex' = [ex EXCEPT ![i] = e]
        /\ SetStateAndReturn(i, catchState(e))
    /\ UNCHANGED <<token, tokenInfo, userProfile, calls, mounted>>

\* Variant: unmounting cancels the suspended invocations.
Unmount_Cancels ==
    /\ mounted
    /\ mounted' = FALSE
    /\ pc' = [i \in Attempts |->
                 IF pc[i] \in {"awaitTokenInfo", "awaitProfile"}
                 THEN "cancelled" ELSE pc[i]]
    /\ UNCHANGED <<authState, token, tokenInfo, userProfile, ex, calls,
                   writes, lastWriter, lateWrite, invokedSinceWrite>>

(***************************************************************************)
(* React unmounts the component.  AuthWrapper has no componentWillUnmount  *)
(* and fetchTokenInfo() never looks at whether the component is mounted,   *)
(* so the suspended invocations are left as they are.  setState is         *)
(* modelled as the assignment the code asks for, mounted or not.           *)
(***************************************************************************)
Unmount ==
    /\ mounted
    /\ mounted' = FALSE
    /\ UNCHANGED <<authState, pc, token, tokenInfo, userProfile, ex, calls,
                   writes, lastWriter, lateWrite, invokedSinceWrite>>

Next ==
    \/ \E i \in Attempts :
        \/ FetchTokenInfo(i)
        \/ GetTokenInfoResolves(i)
        \/ GetTokenInfoRejects(i)
        \/ FetchProfileResolves(i)
        \/ FetchProfileRejects(i)
    \/ Unmount

Spec == Init /\ [][Next]_vars

(***************************************************************************)
(* The promises fetchTokenInfo() awaits are settled at some time: every    *)
(* collaborator call returns or raises.                                    *)
(***************************************************************************)
FairSpec ==
    /\ Spec
    /\ \A i \in Attempts :
        /\ WF_vars(GetTokenInfoResolves(i) \/ GetTokenInfoRejects(i))
        /\ WF_vars(FetchProfileResolves(i) \/ FetchProfileRejects(i))

(***************************************************************************)
(* The vocabulary of the specification: the phases of the envelope and     *)
(* the outcomes it carries.                                                *)
(***************************************************************************)
Unauthenticated == [status |-> "UNAUTHENTICATED"]
Authenticated(t, m, p) ==
    [status |-> "AUTHENTICATED",
     authInfo |-> [token |-> t, tokenInfo |-> m], userProfile |-> p]
Succeeded(v) == [status |-> "SUCCESS", value |-> v]
Failed(m) == [status |-> "ERROR", message |-> m]
Terminal(s) == s.status \in {"SUCCESS", "ERROR"}

InFlight(i) == pc[i] \in {"awaitTokenInfo", "awaitProfile"}
Classified(e) == e.cls = "AuthError"
Unclassified(e) == e.cls \in {"Error", "Object"}
HasMessage(e) == "message" \in DOMAIN e
VerificationRaised(i) ==
    pc[i] = "done" /\ ex[i] # NoException /\ tokenInfo[i] = Undefined
GetTokenInfoCall(i) == [fn |-> "getTokenInfo", token |-> token[i]]

\* C1: an attempt that reads an absent token writes Succeeded(Unauthenticated)
\* and calls neither the verification client nor the profile fetcher.
C1_AbsentTokenUnauthenticatedNoCalls ==
    \A i \in Attempts :
        (pc[i] # "idle" /\ token[i] = NullToken) =>
            /\ pc[i] = "done"
            /\ writes[i] = <<Succeeded(Unauthenticated)>>
            /\ calls[i] = <<>>

C1_Witness ==
    \E i \in Attempts : pc[i] = "done" /\ token[i] = NullToken

\* C2: an attempt in which verification or the profile fetch raises a
\* classified failure with code 10020 writes Succeeded(Unauthenticated),
\* never Failed, whatever the failure's message.
C2_InvalidCredentialUnauthenticated ==
    \A i \in Attempts :
        (pc[i] = "done" /\ Classified(ex[i])
            /\ ex[i].error.appcode = 10020) =>
                writes[i] = <<Succeeded(Unauthenticated)>>

C2_Witness ==
    \E i, j \in Attempts :
        /\ pc[i] = "done" /\ pc[j] = "done"
        /\ Classified(ex[i]) /\ Classified(ex[j])
        /\ ex[i].error.appcode = 10020 /\ ex[j].error.appcode = 10020
        /\ ex[i].error.message # ex[j].error.message
        /\ tokenInfo[i] = Undefined /\ tokenInfo[j] \in TokenInfos

\* C3: an attempt in which verification raises a classified failure with a
\* code other than 10020 writes Failed(message), message being the
\* service-provided message of the failure.
C3_OtherClassifiedFailureFailed ==
    \A i \in Attempts :
        (VerificationRaised(i) /\ Classified(ex[i])
            /\ ex[i].error.appcode # 10020) =>
                writes[i] = <<Failed(ex[i].error.message)>>

C3_Witness ==
    \E i \in Attempts :
        /\ VerificationRaised(i) /\ Classified(ex[i])
        /\ ex[i].error.appcode # 10020

\* C4: an attempt whose verification returns metadata with subject s and
\* whose profile fetch returns absent writes exactly
\* Failed("User not found: " + s), never Succeeded(Unauthenticated).
C4_ProfileNotFoundFailed ==
    \A i \in Attempts :
        (pc[i] = "done" /\ tokenInfo[i] \in TokenInfos
            /\ userProfile[i] = Null) =>
                /\ writes[i] =
                       <<Failed("User not found: " \o tokenInfo[i].user)>>
                /\ writes[i] # <<Succeeded(Unauthenticated)>>

C4_Witness ==
    \E i \in Attempts :
        /\ pc[i] = "done" /\ tokenInfo[i] \in TokenInfos
        /\ userProfile[i] = Null
        /\ authState = Failed("User not found: bob")

\* C5: an attempt with token t whose verification returns metadata m and
\* whose profile fetch returns record p writes
\* Succeeded(Authenticated{t, m, p}), the three fields unmodified.
C5_AuthenticatedCarriesSources ==
    \A i \in Attempts :
        (pc[i] = "done" /\ userProfile[i] \in UserProfiles) =>
            /\ token[i] \in Tokens
            /\ tokenInfo[i] \in TokenInfos
            /\ calls[i][1] = [fn |-> "getTokenInfo", token |-> token[i]]
            /\ writes[i] = <<Succeeded(Authenticated(token[i], tokenInfo[i],
                                                     userProfile[i]))>>

C5_Witness ==
    \E i \in Attempts :
        /\ pc[i] = "done"
        /\ authState = Succeeded(Authenticated("abc123", [user |-> "alice"],
                                               [name |-> "Alice"]))
        /\ writes[i] = <<authState>>

\* C6: an attempt whose verification returns absent metadata without raising
\* writes Succeeded(Unauthenticated) and does not call the profile fetcher.
C6_AbsentMetadataUnauthenticated ==
    \A i \in Attempts :
        (pc[i] # "awaitTokenInfo" /\ tokenInfo[i] = Null) =>
            /\ pc[i] = "done"
            /\ writes[i] = <<Succeeded(Unauthenticated)>>
            /\ calls[i] = <<GetTokenInfoCall(i)>>

C6_Witness ==
    \E i \in Attempts :
        pc[i] = "done" /\ tokenInfo[i] = Null /\ ex[i] = NoException

\* C7: while an attempt has started and has not yet written its terminal
\* result, the envelope phase is Pending.
C7_PendingWhileInFlight ==
    \A i \in Attempts : InFlight(i) => authState.status = "PENDING"

\* C8: an attempt that raises an unclassified failure writes Failed(m), m
\* being the failure's own message whenever it carries one, and "Unknown
\* Error" only when it carries none, also for thrown values that are not
\* Error instances.
C8_UnclassifiedFailureOwnMessage ==
    \A i \in Attempts :
        (pc[i] = "done" /\ Unclassified(ex[i])) =>
            writes[i] = <<Failed(IF HasMessage(ex[i])
                                 THEN ex[i].message
                                 ELSE "Unknown Error")>>

\* C9: whenever the envelope holds Succeeded(Authenticated), some attempt's
\* verification returned metadata and that attempt's profile fetch returned
\* a record, and the envelope's token, metadata and profile are those of
\* that one attempt.
C9_AuthenticatedFromOneAttempt ==
    (authState.status = "SUCCESS"
        /\ authState.value.status = "AUTHENTICATED") =>
        \E i \in Attempts :
            /\ pc[i] = "done"
            /\ token[i] \in Tokens
            /\ tokenInfo[i] \in TokenInfos
            /\ userProfile[i] \in UserProfiles
            /\ calls[i] = <<GetTokenInfoCall(i),
                            [fn |-> "fetchProfile", token |-> token[i],
                             username |-> tokenInfo[i].user]>>
            /\ authState.value.authInfo.token = token[i]
            /\ authState.value.authInfo.tokenInfo = tokenInfo[i]
            /\ authState.value.userProfile = userProfile[i]

C9_Witness ==
    \E i, j \in Attempts :
        /\ i < j
        /\ pc[i] = "done" /\ pc[j] = "done"
        /\ userProfile[i] \in UserProfiles /\ userProfile[j] \in UserProfiles
        /\ token[i] # token[j]
        /\ tokenInfo[i] # tokenInfo[j]
        /\ userProfile[i] # userProfile[j]
        /\ authState = writes[i][1]

\* C10: each attempt writes the envelope exactly once, with a terminal
\* phase, in the step that completes it; the envelope changes in no other
\* step, so nothing is published between an attempt's start and its
\* terminal write.
C10_WriteStep ==
    \A i \in Attempts :
        IF pc[i] # "done" /\ pc'[i] = "done"
        THEN /\ writes[i] = <<>>
             /\ writes'[i] = <<authState'>>
             /\ Terminal(authState')
        ELSE writes'[i] = writes[i]

C10_NoOtherPublication ==
    authState' # authState =>
        \E i \in Attempts : pc[i] # "done" /\ pc'[i] = "done"

C10_OneTerminalWritePerAttempt ==
    /\ [](\A i \in Attempts :
            Len(writes[i]) = (IF pc[i] = "done" THEN 1 ELSE 0))
    /\ [][C10_WriteStep /\ C10_NoOtherPublication]_vars

C10_Witness ==
    \E i \in Attempts :
        /\ pc[i] = "done"
        /\ Len(calls[i]) = 2
        /\ Len(writes[i]) = 1
        /\ \E j \in Attempts : InFlight(j)

\* C11: a terminal envelope is never replaced directly by a different
\* terminal envelope: a later attempt puts a fresh, non-terminal envelope
\* in the slot before it publishes its own result.
C11_FreshEnvelopeBetweenTerminals ==
    [][(Terminal(authState) /\ Terminal(authState')) =>
           authState' = authState]_vars

\* C12: every failure raised during an attempt is caught inside the attempt
\* and converted into exactly one terminal envelope phase, and, each
\* collaborator call returning or raising at some time, every started
\* attempt eventually writes Succeeded or Failed.
C12_Written(i) ==
    /\ pc[i] = "done"
    /\ Len(writes[i]) = 1
    /\ Terminal(writes[i][1])

\* An attempt that has started stays started, so "from some time on every
\* started attempt has written" gives "every started attempt eventually
\* writes".
C12_FailuresCaughtAndAttemptsComplete ==
    /\ [](\A i \in Attempts : ex[i] # NoException => C12_Written(i))
    /\ <>[](\A i \in Attempts : pc[i] # "idle" => C12_Written(i))

C12_Witness ==
    \E i, j \in Attempts :
        /\ C12_Written(i) /\ C12_Written(j)
        /\ ex[i] \in NonErrors /\ tokenInfo[i] = Undefined
        /\ ex[j] \in Exceptions /\ tokenInfo[j] \in TokenInfos
        /\ writes[i][1].status = "ERROR"

\* C13: overlapping attempts are not deduplicated: each attempt issues its
\* own collaborator calls and performs its own envelope write, and the
\* envelope is the outcome of the attempt that wrote last, whatever the
\* order in which the attempts were started.
C13_LastWriteWins ==
    /\ \A i \in Attempts :
        pc[i] = "done" =>
            /\ Len(writes[i]) = 1
            /\ token[i] \in Tokens =>
                   (calls[i] # <<>> /\ calls[i][1] = GetTokenInfoCall(i))
    /\ (lastWriter = 0) <=> (\A i \in Attempts : pc[i] # "done")
    /\ lastWriter # 0 =>
           (pc[lastWriter] = "done" /\ authState = writes[lastWriter][1])

C13_Witness ==
    \E i, j \in Attempts :
        /\ i < j
        /\ \A k \in Attempts : pc[k] = "done"
        /\ token[i] \in Tokens /\ token[j] \in Tokens
        /\ lastWriter = i
        /\ writes[i] # writes[j]
        /\ authState = writes[i][1]

\* C14: a failure raised by the profile fetch is classified like one raised
\* by verification: code 10020 gives Succeeded(Unauthenticated), any other
\* classified failure gives Failed(service message), an unclassified failure
\* gives Failed(its message or the fallback).
ProfileFetchRaised(i) ==
    /\ pc[i] = "done"
    /\ tokenInfo[i] \in TokenInfos
    /\ userProfile[i] = Undefined
    /\ ex[i] # NoException

C14_ProfileFailureClassifiedAlike ==
    \A i \in Attempts :
        ProfileFetchRaised(i) =>
            /\ Len(writes[i]) = 1
            /\ IF Classified(ex[i])
               THEN IF ex[i].error.appcode = 10020
                    THEN writes[i][1] = Succeeded(Unauthenticated)
                    ELSE writes[i][1] = Failed(ex[i].error.message)
               ELSE \/ writes[i][1] = Failed("Unknown Error")
                    \/ /\ HasMessage(ex[i])
                       /\ writes[i][1] = Failed(ex[i].message)
            /\ \A j \in Attempts :
                   (VerificationRaised(j) /\ ex[j] = ex[i]) =>
                       writes[j] = writes[i]

C14_Witness ==
    \E i, j \in Attempts :
        /\ ProfileFetchRaised(i)
        /\ Classified(ex[i]) /\ ex[i].error.appcode = 10020
        /\ VerificationRaised(j) /\ ex[j] = ex[i]
        /\ lastWriter = i
        /\ authState = Succeeded(Unauthenticated)

\* C15: within one attempt the steps are sequential: the verification call
\* is issued only after a present token has been read, the profile fetch
\* only after that attempt's verification has returned metadata, never in
\* parallel with it, and with that attempt's token and the subject of that
\* attempt's metadata.
C15_StepsSequential ==
    \A i \in Attempts :
        /\ Len(calls[i]) <= 2
        /\ calls[i] # <<>> =>
               (token[i] \in Tokens /\ calls[i][1] = GetTokenInfoCall(i))
        /\ pc[i] = "awaitTokenInfo" =>
               (Len(calls[i]) = 1 /\ tokenInfo[i] = Undefined)
        /\ Len(calls[i]) = 2 =>
               /\ tokenInfo[i] \in TokenInfos
               /\ calls[i][2] = [fn |-> "fetchProfile", token |-> token[i],
                                 username |-> tokenInfo[i].user]
        /\ tokenInfo[i] \notin TokenInfos => Len(calls[i]) <= 1

C15_Witness ==
    \E i, j \in Attempts :
        /\ pc[i] = "awaitProfile" /\ Len(calls[i]) = 2
        /\ pc[j] = "awaitProfile" /\ Len(calls[j]) = 2
        /\ calls[i][2].token # calls[j][2].token
        /\ calls[i][2].username # calls[j][2].username

\* C16 as stated: each collaborator is called at most once per attempt, and
\* a Failed envelope stays as it is until resolve() is invoked again.
CallsOf(i, fn) == {k \in 1..Len(calls[i]) : calls[i][k].fn = fn}
Invoked(i) == pc[i] = "idle" /\ pc'[i] # "idle"
Completed(i) == pc[i] # "done" /\ pc'[i] = "done"

C16_AtMostOneCallEach ==
    \A i \in Attempts :
        /\ Cardinality(CallsOf(i, "getTokenInfo")) <= 1
        /\ Cardinality(CallsOf(i, "fetchProfile")) <= 1

C16_FailedUntilReinvoked ==
    /\ [] C16_AtMostOneCallEach
    /\ [][(authState.status = "ERROR" /\ authState' # authState) =>
              (invokedSinceWrite \/ \E i \in Attempts : Invoked(i))]_vars

\* C16 as amended: each collaborator is called at most once per attempt, a
\* completed attempt makes no further call or write, and a Failed envelope
\* stays as it is until another attempt performs its write, be it one
\* invoked afterwards or one that was already in flight.
C16_NoRetries ==
    /\ [] C16_AtMostOneCallEach
    /\ [][/\ \A i \in Attempts :
               pc[i] = "done" =>
                   (pc'[i] = "done" /\ calls'[i] = calls[i]
                       /\ writes'[i] = writes[i])
          /\ (authState.status = "ERROR" /\ authState' # authState) =>
                 \E j \in Attempts :
                     /\ j # lastWriter
                     /\ Completed(j)
                     /\ authState' = writes'[j][1]]_vars

C16_Witness ==
    \E i, j \in Attempts :
        /\ lastWriter = i
        /\ authState.status = "ERROR"
        /\ authState = writes[i][1]
        /\ ~invokedSinceWrite
        /\ InFlight(j)

\* C17: there is no cancellation: unmounting leaves the started attempts as
\* they are, an attempt in flight can always go on, and an attempt that
\* completes after the unmount performs its envelope write all the same.
C17_Proceeds(i) ==
    \/ GetTokenInfoResolves(i) \/ GetTokenInfoRejects(i)
    \/ FetchProfileResolves(i) \/ FetchProfileRejects(i)

C17_NoCancellation ==
    /\ [](\A i \in Attempts : InFlight(i) => ENABLED C17_Proceeds(i))
    /\ [][/\ (mounted /\ ~mounted') =>
                 (pc' = pc /\ writes' = writes /\ authState' = authState)
          /\ \A i \in Attempts :
                 (~mounted /\ pc'[i] # pc[i]) =>
                     \/ pc[i] = "awaitTokenInfo" /\ pc'[i] = "awaitProfile"
                     \/ /\ InFlight(i) /\ pc'[i] = "done"
                        /\ writes'[i] = <<authState'>>
                        /\ Terminal(authState')
                        /\ lateWrite']_vars

C17_Witness ==
    /\ ~mounted
    /\ lateWrite
    /\ lastWriter # 0
    /\ Len(calls[lastWriter]) = 2
    /\ authState = writes[lastWriter][1]
    /\ authState.status = "SUCCESS"
    /\ authState.value.status = "AUTHENTICATED"

\* C18: a Succeeded envelope carries the Unauthenticated or the
\* Authenticated outcome; the outcome NONE is never published in one.
C18_Resolved(s) ==
    s.status = "SUCCESS" =>
        s.value.status \in {"UNAUTHENTICATED", "AUTHENTICATED"}

C18_SucceededIsResolved ==
    /\ C18_Resolved(authState)
    /\ \A i \in Attempts :
           \A k \in 1..Len(writes[i]) : C18_Resolved(writes[i][k])

C18_Witness ==
    \E i, j \in Attempts :
        /\ writes[i] = <<Succeeded(Unauthenticated)>>
        /\ Len(writes[j]) = 1
        /\ writes[j][1].status = "SUCCESS"
        /\ writes[j][1].value.status = "AUTHENTICATED"
        /\ authState = writes[i][1]

\* C19: once an attempt has written, the envelope holds a terminal phase in
\* every later state: starting a further attempt leaves the envelope as it
\* is, so the previous result stays visible while the attempt is in flight.
C19_TerminalStaysTerminal ==
    /\ [](lastWriter # 0 => Terminal(authState))
    /\ [][/\ Terminal(authState) => Terminal(authState')
          /\ \A i \in Attempts :
                 (Invoked(i) /\ InFlight(i)') => authState' = authState]_vars

C19_Witness ==
    /\ Terminal(authState)
    /\ invokedSinceWrite
    /\ \E j \in Attempts : InFlight(j)

=============================================================================
